---- MODULE Spec2Model ----
(***************************************************************************)
(* Incremental indexing pipeline of app/usergroupchatcontext/scripts:      *)
(* update_memory.py (hash ledger, delete-then-reindex, batching) and       *)
(* direct_update_pinecone.py (the same loop without ledger and delete),    *)
(* and the text chunker chunk_text both scripts share.                     *)
(***************************************************************************)
EXTENDS Integers, Sequences, FiniteSets, TLC

VARIABLES
    \* ---- chunk_text(text, chunk_size, overlap): arguments and locals
    text,          \* the argument: a sequence of characters
    chunk_size,    \* the argument, in tokens
    overlap,       \* the argument, in tokens
    start,         \* the cursor of the while loop
    chunks,        \* the list being built (trimmed chunks)
    ranges,        \* the slice bounds <<start, end>> each chunk was cut from
    cpc,           \* "call" | "loop" | "done"
    previous,      \* <<the chunks an earlier call with these arguments returned>>, or <<>>
    \* ---- the functions of a path: should_index_file, create_metadata,
    \* delete_file_vectors
    abs_path,      \* the argument file_path: a sequence of characters
    classified,    \* what the three functions derive from it, or NotClassified
    \* ---- get_changed_files
    vcs,           \* what git and the file system would report: status, diff, recent
    gcf,           \* the call: where it is, changed_files, the sources consulted
    \* ---- the ids of the records: two files indexed into one index
    tree,          \* the paths of the two files, or <<>>
    pinecone_index, \* the index keyed by the id strings: a set of records
    \* ---- the world the scripts run in
    content,       \* file system: file -> its current content
    ledger,        \* .file_hashes.json: file -> stored hash, or NoHash
    store,         \* the vector index: a set of records, one per id
    budget,        \* what the environment may still do: faults, edits, runs,
                   \* commits of other processes
    \* ---- one run of a script (main, index_directory, index_changed_files)
    mode,          \* "idle" | "default" | "all" | "changed" | "direct"
    candidates,    \* the files the run iterates over, in order
    todo,          \* the candidates not yet passed to index_file
    visited,       \* the candidates passed to index_file so far
    success_count,
    failure_count,
    invocation,    \* the command line and environment of a process that was started
                   \* and has not reached main yet, or NoInvocation
    expected,      \* history: the ledger the run started with, with the entry of
                   \* every file committed since, by the run or by another process
    \* ---- one execution of index_file
    pc,            \* "idle" | "delete" | "read" | "meta" | "chunk" | "flush" | "commit"
    file_path,     \* the argument
    file_hashes,   \* the loaded ledger
    current_hash,
    metadata,      \* create_metadata's result: file_type, file_name, file_hash
    nchunks,       \* len(chunks)
    i,             \* chunks handled so far by the for loop
    vectors_to_upsert,
    success,
    ret,           \* what the last execution returned
    outcome,       \* how it ended: "none" | "running" | "filtered" | "skipped" |
                   \* "empty" | "committed" | "failed"
    calls,         \* the calls of this execution to the store and the embedding provider
    failed         \* history: file -> its last pass lost a chunk and it was not edited since

cvars == <<text, chunk_size, overlap, start, chunks, ranges, cpc, previous,
          abs_path, classified, vcs, gcf, tree, pinecone_index, tree, pinecone_index>>
wvars == <<content, ledger, store, budget>>
rvars == <<mode, candidates, todo, visited, success_count, failure_count,
          invocation, expected>>
fvars == <<pc, file_path, file_hashes, current_hash, metadata, nchunks, i,
           vectors_to_upsert, success, ret, outcome, calls, failed>>

vars == <<cvars, wvars, rvars, fvars>>

----------------------------------------------------------------------------
(* Bounds of the chunker's inputs *)

MaxTextLen == 9
MaxSpecial == 4
MaxChunkSize == 2
MaxOverlap == 2

\* cap on loop iterations, for arguments on which the loop does not end
MaxIter == 6

Whitespace == {" ", "\n"}
Specials == {".", " ", "\n"}
Chars == {"a"} \cup Specials

\* the text of n characters whose characters at the positions S are given by
\* f and whose other characters are letters
TextOf(n, S, f) == [p \in 1..n |-> IF p \in S THEN f[p] ELSE "a"]

\* text is a text of at most MaxTextLen characters, at most MaxSpecial of them
\* not a letter
IsInputText(t) ==
    \E n \in 0..MaxTextLen :
        \E S \in SUBSET (1..n) :
            /\ Cardinality(S) <= MaxSpecial
            /\ \E f \in [S -> Specials] : t = TextOf(n, S, f)

----------------------------------------------------------------------------
(* Python string primitives, 0-based as in the source *)

Min(S) == CHOOSE x \in S : \A y \in S : x <= y

\* Python's normalisation of a slice bound against a length
PyIndex(x, n) ==
    IF x < 0 THEN (IF x + n < 0 THEN 0 ELSE x + n)
    ELSE IF x > n THEN n ELSE x

\* s[lo:hi]
Slice(s, lo, hi) ==
    LET a == PyIndex(lo, Len(s))
        b == PyIndex(hi, Len(s))
    IN  IF a >= b THEN <<>> ELSE SubSeq(s, a + 1, b)

\* s.find(sub): the bounds of the search left out
Find_Unbounded(s, sub, lo, hi) ==
    LET hits == {p \in 0..(Len(s) - Len(sub)) : SubSeq(s, p + 1, p + Len(sub)) = sub}
    IN  IF hits = {} THEN -1 ELSE Min(hits)

\* s.find(sub, lo, hi): lowest index of sub inside s[lo:hi], or -1
Find(s, sub, lo, hi) ==
    LET a == PyIndex(lo, Len(s))
        b == PyIndex(hi, Len(s))
        hits == {p \in a..(b - Len(sub)) : SubSeq(s, p + 1, p + Len(sub)) = sub}
    IN  IF hits = {} THEN -1 ELSE Min(hits)

RECURSIVE LStrip(_)
LStrip(s) ==
    IF s # <<>> /\ Head(s) \in Whitespace THEN LStrip(Tail(s)) ELSE s

RECURSIVE RStrip(_)
RStrip(s) ==
    IF s # <<>> /\ s[Len(s)] \in Whitespace
    THEN RStrip(SubSeq(s, 1, Len(s) - 1)) ELSE s

\* s.strip()
Strip(s) == RStrip(LStrip(s))

----------------------------------------------------------------------------
(* File paths, as sequences of characters *)

\* update_memory.py:18, direct_update_pinecone.py:16
DIRECTORY_TO_INDEX == <<"/", "U", "s", "e", "r", "s", "/", "d", "e", "v", "/", "c", "o", "d", "e", "/", "a", "g", "e", "n", "t", "c", "o", "n", "s", "u", "l", "t", "/", "a", "p", "p", "/", "u", "s", "e", "r", "g", "r", "o", "u", "p", "c", "h", "a", "t", "c", "o", "n", "t", "e", "x", "t">>

\* the files of the tree
Files == {"f1", "f2", "f3"}

PathOf(f) ==
    CASE f = "f1" -> DIRECTORY_TO_INDEX \o <<"/", "c", "o", "m", "p", "o", "n", "e", "n", "t", "s", "/", "a", ".", "t", "s", "x">>
      [] f = "f2" -> DIRECTORY_TO_INDEX \o <<"/", "u", "t", "i", "l", "s", "/", "b", ".", "t", "s">>
      [] f = "f3" -> DIRECTORY_TO_INDEX \o <<"/", "l", "o", "g", "o", ".", "p", "n", "g">>

\* update_memory.py:21-22
EXTENSIONS_TO_INDEX ==
    {<<".", "t", "s">>, <<".", "t", "s", "x">>, <<".", "j", "s">>, <<".", "j", "s", "x">>,
     <<".", "m", "d">>, <<".", "t", "x", "t">>, <<".", "c", "s", "s">>}
IGNORE_DIRS == {<<".", "g", "i", "t">>, <<"n", "o", "d", "e", "_", "m", "o", "d", "u", "l", "e", "s">>, <<"_", "_", "p", "y", "c", "a", "c", "h", "e", "_", "_">>}

\* sub in s
Contains(s, sub) ==
    \E k \in 0..(Len(s) - Len(sub)) : SubSeq(s, k + 1, k + Len(sub)) = sub

\* s.endswith(suf)
EndsWith(s, suf) ==
    /\ Len(suf) <= Len(s)
    /\ SubSeq(s, Len(s) - Len(suf) + 1, Len(s)) = suf

Max(S) == CHOOSE x \in S : \A y \in S : x >= y

\* os.path.basename(path): what follows the last slash
Basename(path) ==
    LET slashes == {k \in 1..Len(path) : path[k] = "/"}
    IN  IF slashes = {} THEN path ELSE SubSeq(path, Max(slashes) + 1, Len(path))

\* os.path.splitext(path)[1]: from the last dot of the basename, unless that
\* dot is preceded only by dots
SplitExt(path) ==
    LET base == Basename(path)
        dots == {k \in 1..Len(base) : base[k] = "."}
    IN  IF dots = {} THEN <<>>
        ELSE IF \A k \in 1..(Max(dots) - 1) : base[k] = "." THEN <<>>
        ELSE SubSeq(base, Max(dots), Len(base))

\* the filter that lets every file pass
should_index_file_Always(path) == TRUE

\* update_memory.py:81-94
should_index_file(path) ==
    /\ SplitExt(path) \in EXTENSIONS_TO_INDEX
    /\ \A d \in IGNORE_DIRS : ~Contains(path, <<"/">> \o d \o <<"/">>)

CodeExtensions == {<<".", "t", "s">>, <<".", "t", "s", "x">>, <<".", "j", "s">>, <<".", "j", "s", "x">>}

\* the test for utils made before the test for context
MetadataFileType_UtilsFirst(path) ==
    LET ext == SplitExt(path)
    IN  IF ext \in CodeExtensions
        THEN IF Contains(path, <<"c", "o", "m", "p", "o", "n", "e", "n", "t", "s">>) THEN "component"
             ELSE IF Contains(path, <<"h", "o", "o", "k", "s">>) THEN "hook"
             ELSE IF Contains(path, <<"u", "t", "i", "l", "s">>) THEN "utility"
             ELSE IF Contains(path, <<"c", "o", "n", "t", "e", "x", "t">>) THEN "context"
             ELSE IF Contains(path, <<"s", "e", "r", "v", "i", "c", "e", "s">>) THEN "service"
             ELSE IF Contains(path, <<"t", "y", "p", "e", "s">>) THEN "type_definition"
             ELSE "code"
        ELSE IF ext = <<".", "m", "d">> THEN "documentation"
        ELSE IF ext = <<".", "c", "s", "s">> THEN "style"
        ELSE IF ext = <<".", "t", "x", "t">> THEN "text"
        ELSE "unknown"

\* update_memory.py:158-180: the file type create_metadata derives
MetadataFileType(path) ==
    LET ext == SplitExt(path)
    IN  IF ext \in CodeExtensions
        THEN IF Contains(path, <<"c", "o", "m", "p", "o", "n", "e", "n", "t", "s">>) THEN "component"
             ELSE IF Contains(path, <<"h", "o", "o", "k", "s">>) THEN "hook"
             ELSE IF Contains(path, <<"c", "o", "n", "t", "e", "x", "t">>) THEN "context"
             ELSE IF Contains(path, <<"u", "t", "i", "l", "s">>) THEN "utility"
             ELSE IF Contains(path, <<"s", "e", "r", "v", "i", "c", "e", "s">>) THEN "service"
             ELSE IF Contains(path, <<"t", "y", "p", "e", "s">>) THEN "type_definition"
             ELSE "code"
        ELSE IF ext = <<".", "m", "d">> THEN "documentation"
        ELSE IF ext = <<".", "c", "s", "s">> THEN "style"
        ELSE IF ext = <<".", "t", "x", "t">> THEN "text"
        ELSE "unknown"

\* update_memory.py:213-230: the file type delete_file_vectors derives
DeleteFileType(path) ==
    LET code ==
            IF \E ext \in CodeExtensions : EndsWith(path, ext)
            THEN IF Contains(path, <<"c", "o", "m", "p", "o", "n", "e", "n", "t", "s">>) THEN "component"
                 ELSE IF Contains(path, <<"h", "o", "o", "k", "s">>) THEN "hook"
                 ELSE "unknown"
            ELSE "unknown"
    IN  IF EndsWith(path, <<".", "m", "d">>) THEN "documentation"
        ELSE IF EndsWith(path, <<".", "c", "s", "s">>) THEN "style"
        ELSE IF EndsWith(path, <<".", "t", "x", "t">>) THEN "text"
        ELSE code

----------------------------------------------------------------------------
(* chunk_text *)

CharSize == chunk_size * 4
CharOverlap == overlap * 4

\* the short text trimmed like the other chunks
ShortTextChunks_Stripped == <<Strip(text)>>

\* update_memory.py:103: what is returned for a short text
ShortTextChunks == <<text>>

\* the overlap added instead of subtracted
HardCutStart_Forward(end) == end + CharOverlap

\* update_memory.py:139: the cursor after a hard cut at end
HardCutStart(end) == end - CharOverlap

\* the list of an earlier call used again
FreshChunks_Kept == chunks

\* update_memory.py:105: chunks = []
FreshChunks == <<>>

\* update_memory.py:102-106: the short-text return, else the loop is entered
ChunkCall ==
    /\ cpc = "call"
    /\ IF Len(text) <= CharSize
       THEN /\ chunks' = ShortTextChunks
            /\ ranges' = <<<<0, Len(text)>>>>
            /\ cpc' = "done"
       ELSE /\ chunks' = FreshChunks
            /\ ranges' = <<>>
            /\ cpc' = "loop"
    /\ start' = 0
    /\ UNCHANGED <<text, chunk_size, overlap, previous, abs_path, classified,
                   vcs, gcf, tree, pinecone_index, wvars, rvars, fvars>>

\* update_memory.py:108-139: one iteration of the while loop
ChunkLoop ==
    /\ cpc = "loop"
    /\ Len(chunks) < MaxIter
    /\ LET end == start + CharSize
           paragraph_break == Find(text, <<"\n", "\n">>, end - CharOverlap, end + CharOverlap)
           sentence_break == Find(text, <<".", " ">>, end - CharOverlap, end + CharOverlap)
           line_break == Find(text, <<"\n">>, end - CharOverlap, end + CharOverlap)
       IN  IF ~(start < Len(text))
           THEN /\ cpc' = "done"
                /\ UNCHANGED <<start, chunks, ranges>>
           ELSE IF end >= Len(text)
           THEN /\ chunks' = Append(chunks, Slice(text, start, Len(text)))
                /\ ranges' = Append(ranges, <<start, Len(text)>>)
                /\ cpc' = "done"
                /\ UNCHANGED start
           ELSE IF paragraph_break # -1
           THEN /\ chunks' = Append(chunks, Strip(Slice(text, start, paragraph_break)))
                /\ ranges' = Append(ranges, <<start, paragraph_break>>)
                /\ start' = paragraph_break
                /\ UNCHANGED cpc
           ELSE IF sentence_break # -1
           THEN /\ chunks' = Append(chunks, Strip(Slice(text, start, sentence_break + 1)))
                /\ ranges' = Append(ranges, <<start, sentence_break + 1>>)
                /\ start' = sentence_break + 1
                /\ UNCHANGED cpc
           ELSE IF line_break # -1
           THEN /\ chunks' = Append(chunks, Strip(Slice(text, start, line_break)))
                /\ ranges' = Append(ranges, <<start, line_break>>)
                /\ start' = line_break
                /\ UNCHANGED cpc
           ELSE /\ chunks' = Append(chunks, Strip(Slice(text, start, end)))
                /\ ranges' = Append(ranges, <<start, end>>)
                /\ start' = HardCutStart(end)
                /\ UNCHANGED cpc
    /\ UNCHANGED <<text, chunk_size, overlap, previous, abs_path, classified,
                   vcs, gcf, tree, pinecone_index, wvars, rvars, fvars>>

\* update_memory.py:96, 296: chunk_text is called once more with the same
\* arguments (every pass over an unchanged file does so); what the earlier
\* call returned is remembered and its locals are left as they were
ChunkAgain ==
    /\ cpc = "done"
    /\ previous = <<>>
    /\ previous' = <<chunks>>
    /\ cpc' = "call"
    /\ UNCHANGED <<text, chunk_size, overlap, start, chunks, ranges, abs_path, classified, vcs, gcf, tree, pinecone_index,
                   wvars, rvars, fvars>>

\* update_memory.py:108-113: the while loop is left from the cursor s
LoopExits(s) == ~(s < Len(text)) \/ s + CharSize >= Len(text)

\* update_memory.py:115-139: the cursor after an iteration that starts at s
NextCursor(s) ==
    LET end == s + CharSize
        paragraph_break == Find(text, <<"\n", "\n">>, end - CharOverlap, end + CharOverlap)
        sentence_break == Find(text, <<".", " ">>, end - CharOverlap, end + CharOverlap)
        line_break == Find(text, <<"\n">>, end - CharOverlap, end + CharOverlap)
    IN  IF paragraph_break # -1 THEN paragraph_break
        ELSE IF sentence_break # -1 THEN sentence_break + 1
        ELSE IF line_break # -1 THEN line_break
        ELSE HardCutStart(end)

\* below this cursor every bound of the searches and slices of an iteration
\* normalises to 0, nothing is found and the hard cut lowers the cursor again
CursorFloor == 0 - (Len(text) + CharSize + CharOverlap)

\* update_memory.py:108-139: one iteration of the while loop, seen through the
\* cursor alone (the chunks appended do not influence the loop); an iteration
\* that leaves the cursor where it was is followed by the same iteration
CursorStep ==
    /\ cpc = "loop"
    /\ start >= CursorFloor
    /\ IF LoopExits(start)
       THEN /\ cpc' = "done"
            /\ UNCHANGED start
       ELSE /\ start' = NextCursor(start)
            /\ UNCHANGED cpc
    /\ UNCHANGED <<text, chunk_size, overlap, chunks, ranges, previous, abs_path, classified,
                   vcs, gcf, tree, pinecone_index,
                   wvars, rvars, fvars>>

----------------------------------------------------------------------------
(* Bounds of the pipeline's environment *)

\* chunk counts of the file contents the small scenario draws from
MaxChunks == 2
\* versions of a content with the same chunk count
MaxVer == 1
\* environment budget of the small scenario
MaxFaults == 2
MaxEdits == 1
MaxRuns == 3
MaxOthers == 1
\* the large scenario: one file of BigChunks chunks, and its budget
BigChunks == 101
BigFaults == 1
BigEdits == 1
BigRuns == 1
BigOthers == 1

----------------------------------------------------------------------------
(* Program constants *)

\* update_memory.py:243: range(1, 50)
DELETE_RANGE_STOP == 50
\* update_memory.py:328, direct_update_pinecone.py:233
UPSERT_BATCH_SIZE == 100

----------------------------------------------------------------------------
(* The world: file contents, hashes, the ledger file, the vector store *)

NoHash == <<"absent">>
NoLedger == [f \in Files |-> NoHash]
NoMetadata == [file_type |-> "unknown", file_name |-> <<>>, file_hash |-> NoHash]
NoVcs == [status |-> [raises |-> FALSE, out |-> {}],
          diff |-> [raises |-> FALSE, out |-> {}],
          recent |-> {}]
NoCall == [pc |-> "none", changed_files |-> <<>>, consulted |-> <<>>]
NotClassified == [file_type |-> "none", delete_type |-> "none", indexed |-> FALSE]
NoInvocation == [script |-> "none", arg |-> "none", git_dir |-> FALSE]

\* a content is identified by its version and has n chunks (chunk_text of it
\* returns n chunks); the content of 0 chunks is the empty content
Contents ==
    {[n |-> 0, ver |-> 1]} \cup [n : 1..MaxChunks, ver : 1..MaxVer]

\* update_memory.py:53-59: the digest identifies the content (no collisions)
get_file_hash(f) == <<"sha256", content[f].n, content[f].ver>>

\* per file, what the code derives from its path
Path == [f \in Files |-> PathOf(f)]
ShouldIndex == [f \in Files |-> should_index_file(Path[f])]
FileName == [f \in Files |-> Basename(Path[f])]
MetadataType == [f \in Files |-> MetadataFileType(Path[f])]
DeleteType == [f \in Files |-> DeleteFileType(Path[f])]

Indexable == {f \in Files : ShouldIndex[f]}

UpdateModes == {"default", "all", "changed"}
Modes == UpdateModes \cup {"direct"}

\* only the forced full run forces
force_update_AllOnly == mode = "all"

\* update_memory.py:472, 491, 502: the force_update a mode passes
force_update == mode \in {"all", "changed"}

\* the ids of a set or sequence of records
IdsOf(vs) == {vs[k].id : k \in DOMAIN vs}

\* index.upsert(vectors=vs): a record replaces the one of the same id
Upsert(st, vs) ==
    {r \in st : r.id \notin IdsOf(vs)} \cup {vs[k] : k \in DOMAIN vs}

\* index.delete(ids=ids)
Delete(st, ids) == {r \in st : r.id \notin ids}

\* update_memory.py:241-244: the ids delete_file_vectors asks to delete
DeleteIds(f) ==
    {<<DeleteType[f], FileName[f], k>> : k \in 1..(DELETE_RANGE_STOP - 1)}

\* the record numbered from 0
VectorRecord_ZeroBased(k) ==
    [id |-> <<metadata.file_type, metadata.file_name, k - 1>>,
     file_hash |-> metadata.file_hash,
     total_chunks |-> nchunks]

\* update_memory.py:303-325: the record of chunk k
VectorRecord(k) ==
    [id |-> <<metadata.file_type, metadata.file_name, k>>,
     file_hash |-> metadata.file_hash,
     total_chunks |-> nchunks]

\* the skip test without the comparison of the hashes
IsUnchanged_AnyEntry(hashes, f, h) == hashes[f] # NoHash

\* update_memory.py:275: the file has an entry and it equals the current hash
IsUnchanged(hashes, f, h) == hashes[f] # NoHash /\ hashes[f] = h

\* the ledger saved whether or not the pass succeeded
SavedLedger_Always(old, hashes, f, h, ok) == [hashes EXCEPT ![f] = h]

\* update_memory.py:347-350: the ledger file after the pass: the loaded
\* mapping with the file's new hash is saved if the pass succeeded
SavedLedger(old, hashes, f, h, ok) ==
    IF ok THEN [hashes EXCEPT ![f] = h] ELSE old

\* update_memory.py:301: the for loop goes on to the next chunk, if any
ContinueLoop(k, n) == IF k = n THEN "flush" ELSE "chunk"

\* a failed embedding ends the loop
OnEmbeddingFailure_Break(k, n) == "flush"

\* update_memory.py:315-318: a failed embedding skips to the next chunk
OnEmbeddingFailure(k, n) == ContinueLoop(k, n)

\* the delete step left out
AfterBegin_NoDelete(m) == "read"

\* update_memory.py:279-285, direct_update_pinecone.py:187-190: what follows
\* the skip test: update_memory deletes the file's vectors first
AfterBegin(m) == IF m = "direct" THEN "read" ELSE "delete"

\* update_memory.py:438-447, 471-475: the for loops end with the last file
LoopExhausted(q, out) == q = <<>>

\* update_memory.py:444-447, 472-475: a returned value is counted
Counted(sc, fc, r) == IF r THEN <<sc + 1, fc>> ELSE <<sc, fc + 1>>

\* the order in which os.walk and git list the files of the tree
WalkOrder == <<"f1", "f2", "f3">>

\* the files of S in that order
RECURSIVE Listing(_, _)
Listing(q, S) ==
    IF q = <<>> THEN <<>>
    ELSE IF Head(q) \in S THEN <<Head(q)>> \o Listing(Tail(q), S)
    ELSE Listing(Tail(q), S)

Spend(what) == [budget EXCEPT ![what] = @ - 1]

\* no run in progress
RunIdle ==
    /\ mode = "idle"
    /\ candidates = <<>>
    /\ todo = <<>>
    /\ visited = <<>>
    /\ success_count = 0
    /\ failure_count = 0

\* no execution of index_file, no locals
FileIdle ==
    /\ pc = "idle"
    /\ file_path = "none"
    /\ file_hashes = NoLedger
    /\ current_hash = NoHash
    /\ metadata = NoMetadata
    /\ nchunks = 0
    /\ i = 0
    /\ vectors_to_upsert = <<>>
    /\ success = TRUE
    /\ ret = FALSE
    /\ outcome = "none"
    /\ calls = <<>>

----------------------------------------------------------------------------
(* The environment *)

\* another process or the user changes a file: between two runs, or while the
\* file is being indexed and its metadata is not built yet (an edit at another
\* moment of a run has the effect of one before or after the run)
Edit ==
    /\ budget.edits > 0
    /\ \E f \in Indexable, c \in Contents :
          /\ \/ mode = "idle" /\ invocation = NoInvocation
             \/ pc \in {"delete", "read", "meta"} /\ f = file_path
          /\ c # content[f]
          /\ content' = [content EXCEPT ![f] = c]
          /\ failed' = [failed EXCEPT ![f] = FALSE]
    /\ budget' = Spend("edits")
    /\ UNCHANGED <<ledger, store, rvars, cvars>>
    /\ UNCHANGED <<pc, file_path, file_hashes, current_hash, metadata, nchunks, i,
                   vectors_to_upsert, success, ret, outcome, calls>>

----------------------------------------------------------------------------
(* A run: update_memory.main / index_directory / index_changed_files, and
   direct_update_pinecone's index_directory *)

\* sys.argv[1] of a process, "none" when absent
Args == {"none", "changed", "all", "other"}

\* the ways the scripts are started: update_memory.py with or without an
\* argument, in an environment with or without GIT_DIR;
\* direct_update_pinecone.py, which reads neither
Invocations ==
    [script : {"update_memory"}, arg : Args, git_dir : BOOLEAN]
    \cup [script : {"direct_update_pinecone"}, arg : {"none"}, git_dir : {FALSE}]

\* update_memory.py:485-502 (direct_update_pinecone.py:276-288): the mode main
\* selects; "idle" when it starts no run (unknown command)
main(inv) ==
    IF inv.script = "direct_update_pinecone" THEN "direct"
    ELSE IF inv.arg # "none"
    THEN IF inv.arg = "changed" THEN "changed"
         ELSE IF inv.arg = "all" THEN "all"
         ELSE "idle"
    ELSE IF inv.git_dir THEN "changed"
    ELSE "default"

\* a script is started: by the user, by a git hook
Launch ==
    /\ mode = "idle"
    /\ pc = "idle"
    /\ invocation = NoInvocation
    /\ budget.runs > 0
    /\ invocation' \in Invocations
    /\ budget' = Spend("runs")
    /\ UNCHANGED <<content, ledger, store, fvars, cvars>>
    /\ UNCHANGED <<mode, candidates, todo, visited, success_count, failure_count,
                   expected>>

\* update_memory.py:430-436, 455-469, 479-502; direct_update_pinecone.py:254-257
StartRun ==
    /\ mode = "idle"
    /\ pc = "idle"
    /\ invocation # NoInvocation
    /\ LET m == main(invocation)
       IN  /\ mode' = m
           /\ \E S \in (IF m = "changed" THEN SUBSET Indexable
                         ELSE IF m = "idle" THEN {{}} ELSE {Files}) :
                 /\ candidates' = Listing(WalkOrder, S)
                 /\ todo' = Listing(WalkOrder, S)
    /\ invocation' = NoInvocation
    /\ visited' = <<>>
    /\ success_count' = 0
    /\ failure_count' = 0
    /\ expected' = ledger
    /\ UNCHANGED <<content, ledger, store, budget, fvars, cvars>>

\* update_memory.py:504-507: the process ends and its variables are gone; how
\* is "none" (main returned), "traceback" or "killed"
ProcessEnds(how) ==
    /\ mode' = "idle"
    /\ candidates' = <<>>
    /\ todo' = <<>>
    /\ visited' = <<>>
    /\ success_count' = 0
    /\ failure_count' = 0
    /\ pc' = "idle"
    /\ file_path' = "none"
    /\ file_hashes' = NoLedger
    /\ current_hash' = NoHash
    /\ metadata' = NoMetadata
    /\ nchunks' = 0
    /\ i' = 0
    /\ vectors_to_upsert' = <<>>
    /\ success' = TRUE
    /\ ret' = FALSE
    /\ outcome' = how
    /\ calls' = <<>>

\* update_memory.py:453, 477, 504: the loop is over, the summary is printed
\* and the process ends
EndRun ==
    /\ mode # "idle"
    /\ pc = "idle"
    /\ LoopExhausted(todo, outcome)
    /\ ProcessEnds("none")
    /\ UNCHANGED <<wvars, failed, expected, invocation, cvars>>

\* update_memory.py:56 (open in get_file_hash, called at 272), 199 (open in
\* read_file_content, called at 285; direct_update_pinecone.py:174, called at
\* 190), 155 (os.stat in create_metadata, called at 290): the file
\* cannot be opened (no permission, a dangling link, removed meanwhile). The
\* OSError is caught neither in index_file nor in the loops over the files nor
\* in main, so the process ends with a traceback
OpenRaises ==
    /\ budget.faults > 0
    /\ \/ /\ pc = "idle"
          /\ mode \in UpdateModes
          /\ todo # <<>>
          /\ Head(todo) \in Indexable
       \/ pc \in {"read", "meta"}
    /\ budget' = Spend("faults")
    /\ ProcessEnds("traceback")
    /\ UNCHANGED <<content, ledger, store, failed, expected, invocation, cvars>>

\* the process is interrupted (Ctrl-C, kill, power loss) anywhere in a run;
\* nothing catches KeyboardInterrupt (get_embedding and the upsert handlers
\* catch Exception only, update_memory.py:49, 334, 343)
Interrupt ==
    /\ mode # "idle"
    /\ ProcessEnds("killed")
    /\ UNCHANGED <<wvars, failed, expected, invocation, cvars>>

\* update_memory.py:72-79, called at 350: the process is interrupted inside
\* save_file_hashes, after open(HASH_STORAGE_FILE, 'w') has truncated the
\* ledger file and before json.dump has written it all; load_file_hashes
\* reads the empty or cut file as {} (65-69)
InterruptedSave ==
    /\ pc = "commit"
    /\ mode \in UpdateModes
    /\ success
    /\ ledger' = NoLedger
    /\ ProcessEnds("killed")
    /\ UNCHANGED <<content, store, budget, failed, expected, invocation, cvars>>

\* index_file returns r; the caller counts it (update_memory.py:444-447,
\* 472-475)
Return(r, out) ==
    /\ ret' = r
    /\ outcome' = out
    /\ pc' = "idle"
    /\ success_count' = Counted(success_count, failure_count, r)[1]
    /\ failure_count' = Counted(success_count, failure_count, r)[2]

----------------------------------------------------------------------------
(* index_file *)

\* update_memory.py:263-352 executed by a second process (the git hook or a
\* manual run, docstring 2-5) for another file g, from its load of the ledger
\* (269) to its save (350), all its calls succeeding, while this process is
\* between its own load and its own save. This process reads neither the
\* ledger nor the records of g in between, so the moment just before its save
\* stands for every moment of that window
OtherProcessCommits ==
    /\ pc = "commit"
    /\ mode \in UpdateModes
    /\ budget.others > 0
    /\ \E g \in Indexable \ {file_path} :
          LET h == get_file_hash(g)
              n == content[g].n
              vs == [k \in 1..n |->
                       [id |-> <<MetadataType[g], FileName[g], k>>,
                        file_hash |-> h,
                        total_chunks |-> n]]
          IN  /\ n > 0
              /\ ledger[g] # h
              /\ store' = Upsert(Delete(store, DeleteIds(g)), vs)
              /\ ledger' = SavedLedger(ledger, ledger, g, h, TRUE)
              /\ expected' = [expected EXCEPT ![g] = h]
              /\ failed' = [failed EXCEPT ![g] = FALSE]
    /\ budget' = Spend("others")
    /\ UNCHANGED <<content, cvars>>
    /\ UNCHANGED <<mode, candidates, todo, visited, success_count, failure_count,
                   invocation>>
    /\ UNCHANGED <<pc, file_path, file_hashes, current_hash, metadata, nchunks, i,
                   vectors_to_upsert, success, ret, outcome, calls>>

\* update_memory.py:263-279, direct_update_pinecone.py:182-187: the start of
\* an execution in which load_file_hashes returns the mapping loaded
Begin(loaded) ==
    /\ mode # "idle"
    /\ pc = "idle"
    /\ todo # <<>>
    /\ LET f == Head(todo)
           h == get_file_hash(f)
       IN  /\ file_path' = f
           /\ todo' = Tail(todo)
           /\ visited' = Append(visited, f)
           /\ calls' = <<>>
           /\ metadata' = NoMetadata
           /\ nchunks' = 0
           /\ i' = 0
           /\ vectors_to_upsert' = <<>>
           /\ success' = TRUE
           /\ IF ~ShouldIndex[f]
              THEN /\ Return(FALSE, "filtered")
                   /\ file_hashes' = NoLedger
                   /\ current_hash' = NoHash
              ELSE IF mode = "direct"
              THEN /\ pc' = AfterBegin(mode)
                   /\ ret' = FALSE
                   /\ outcome' = "running"
                   /\ file_hashes' = NoLedger
                   /\ current_hash' = NoHash
                   /\ UNCHANGED <<success_count, failure_count>>
              ELSE /\ file_hashes' = loaded
                   /\ current_hash' = h
                   /\ IF ~force_update /\ IsUnchanged(loaded, f, h)
                      THEN Return(TRUE, "skipped")
                      ELSE /\ pc' = AfterBegin(mode)
                           /\ ret' = FALSE
                           /\ outcome' = "running"
                           /\ UNCHANGED <<success_count, failure_count>>
    /\ UNCHANGED <<mode, candidates, expected, invocation, content, ledger, store,
                   cvars, failed>>

\* update_memory.py:61-70, 269: the ledger file is read
IndexFileBegin ==
    /\ Begin(ledger)
    /\ UNCHANGED budget

\* update_memory.py:65-69: reading the ledger file fails (it cannot be opened,
\* or another process is in the middle of rewriting it and the JSON is cut);
\* load_file_hashes prints the error and returns {}
LoadFails ==
    /\ mode \in UpdateModes
    /\ todo # <<>>
    /\ Head(todo) \in Indexable
    /\ budget.faults > 0
    /\ Begin(NoLedger)
    /\ budget' = Spend("faults")

\* a failed delete fails the pass
SuccessAfterDelete_Checked(ok) == ok

\* update_memory.py:282, 299: the value delete_file_vectors returns is not
\* used; success is set to True after the delete whatever it did
SuccessAfterDelete(ok) == TRUE

\* update_memory.py:207-261, 282: one delete call for the guessed ids; its
\* error is printed or ignored and the result of delete_file_vectors is unused
DeleteFileVectors ==
    /\ pc = "delete"
    /\ \E res \in {"ok", "not found", "error"} :
          /\ res # "ok" => budget.faults > 0
          /\ budget' = IF res = "ok" THEN budget ELSE Spend("faults")
          /\ store' = IF res = "ok" THEN Delete(store, DeleteIds(file_path))
                      ELSE store
          /\ calls' = Append(calls,
                [op |-> "delete",
                 arg |-> <<DeleteType[file_path], FileName[file_path]>>,
                 ok |-> res = "ok"])
          /\ success' = SuccessAfterDelete(res = "ok")
    /\ pc' = "read"
    /\ UNCHANGED <<content, ledger, rvars, cvars>>
    /\ UNCHANGED <<file_path, file_hashes, current_hash, metadata, nchunks, i,
                   vectors_to_upsert, ret, outcome, failed>>

\* update_memory.py:284-287, 296: the content is read and, unless empty,
\* chunked
ReadContent ==
    /\ pc = "read"
    /\ IF content[file_path].n = 0
       THEN /\ Return(FALSE, "empty")
            /\ UNCHANGED nchunks
       ELSE /\ nchunks' = content[file_path].n
            /\ pc' = "meta"
            /\ UNCHANGED <<ret, outcome, success_count, failure_count>>
    /\ UNCHANGED <<mode, candidates, todo, visited, expected, invocation, wvars, cvars>>
    /\ UNCHANGED <<file_path, file_hashes, current_hash, metadata, i,
                   vectors_to_upsert, success, calls, failed>>

\* update_memory.py:289-299 with create_metadata (147-191), which hashes the
\* file again
CreateMetadata ==
    /\ pc = "meta"
    /\ metadata' = [file_type |-> MetadataType[file_path],
                    file_name |-> FileName[file_path],
                    file_hash |-> get_file_hash(file_path)]
    /\ pc' = "chunk"
    /\ UNCHANGED <<wvars, rvars, cvars>>
    /\ UNCHANGED <<file_path, file_hashes, current_hash, nchunks, i,
                   vectors_to_upsert, success, ret, outcome, calls, failed>>

\* update_memory.py:301-336: one iteration of the for loop
IndexChunk ==
    /\ pc = "chunk"
    /\ i < nchunks
    /\ LET k == i + 1
           vs == Append(vectors_to_upsert, VectorRecord(k))
       IN  \E embedding \in BOOLEAN, upserted \in BOOLEAN :
              LET embed == [op |-> "embed", arg |-> k, ok |-> embedding]
                  upsert == [op |-> "upsert", ok |-> upserted,
                             arg |-> [j \in DOMAIN vs |-> vs[j].id[3]]]
              IN
              /\ (~embedding \/ ~upserted) => budget.faults > 0
              /\ IF ~embedding
                 THEN \* get_embedding returned None: continue
                      /\ upserted
                      /\ success' = FALSE
                      /\ calls' = Append(calls, embed)
                      /\ budget' = Spend("faults")
                      /\ UNCHANGED <<vectors_to_upsert, store>>
                 ELSE IF Len(vs) >= UPSERT_BATCH_SIZE
                 THEN /\ calls' = Append(Append(calls, embed), upsert)
                      /\ IF upserted
                         THEN /\ store' = Upsert(store, vs)
                              /\ vectors_to_upsert' = <<>>
                              /\ UNCHANGED <<success, budget>>
                         ELSE /\ success' = FALSE
                              /\ vectors_to_upsert' = vs
                              /\ budget' = Spend("faults")
                              /\ UNCHANGED store
                 ELSE /\ upserted
                      /\ vectors_to_upsert' = vs
                      /\ calls' = Append(calls, embed)
                      /\ UNCHANGED <<success, store, budget>>
              /\ i' = k
              /\ pc' = IF embedding THEN ContinueLoop(k, nchunks)
                       ELSE OnEmbeddingFailure(k, nchunks)
    /\ UNCHANGED <<content, ledger, rvars, cvars>>
    /\ UNCHANGED <<file_path, file_hashes, current_hash, metadata, nchunks, ret,
                   outcome, failed>>

\* the remainder forgotten
PendingAtEnd_Dropped(vs) == <<>>

\* update_memory.py:339: if vectors_to_upsert
PendingAtEnd(vs) == vs

\* update_memory.py:338-345: the remaining vectors
FinalFlush ==
    /\ pc = "flush"
    /\ IF PendingAtEnd(vectors_to_upsert) # <<>>
       THEN \E upserted \in BOOLEAN :
              /\ ~upserted => budget.faults > 0
              /\ calls' = Append(calls,
                    [op |-> "upsert", ok |-> upserted,
                     arg |-> [j \in DOMAIN vectors_to_upsert |-> vectors_to_upsert[j].id[3]]])
              /\ IF upserted
                 THEN /\ store' = Upsert(store, vectors_to_upsert)
                      /\ UNCHANGED <<success, budget>>
                 ELSE /\ success' = FALSE
                      /\ budget' = Spend("faults")
                      /\ UNCHANGED store
       ELSE UNCHANGED <<calls, store, success, budget>>
    /\ pc' = "commit"
    /\ UNCHANGED <<content, ledger, rvars, cvars>>
    /\ UNCHANGED <<file_path, file_hashes, current_hash, metadata, nchunks, i,
                   vectors_to_upsert, ret, outcome, failed>>

\* update_memory.py:347-352 (direct_update_pinecone.py:252 returns success
\* without a ledger)
Commit ==
    /\ pc = "commit"
    /\ IF mode # "direct"
       THEN /\ ledger' = SavedLedger(ledger, file_hashes, file_path, current_hash, success)
            /\ file_hashes' = SavedLedger(file_hashes, file_hashes, file_path,
                                          current_hash, success)
       ELSE UNCHANGED <<file_hashes, ledger>>
    /\ Return(success, IF success THEN "committed" ELSE "failed")
    /\ failed' = IF mode = "direct" THEN failed
                 ELSE [failed EXCEPT ![file_path] = ~success]
    /\ expected' = IF mode # "direct" /\ success
                   THEN [expected EXCEPT ![file_path] = current_hash]
                   ELSE expected
    /\ UNCHANGED <<mode, candidates, todo, visited, invocation, content, store, budget,
                   cvars>>
    /\ UNCHANGED <<file_path, current_hash, metadata, nchunks, i,
                   vectors_to_upsert, success, calls>>

----------------------------------------------------------------------------
(* Specifications *)

ChunkIdle ==
    /\ text = <<>>
    /\ chunk_size = 1
    /\ overlap = 0
    /\ start = 0
    /\ chunks = <<>>
    /\ ranges = <<>>
    /\ cpc = "done"
    /\ previous = <<>>

\* no path being classified
PathIdle ==
    /\ abs_path = <<>>
    /\ classified = NotClassified

\* no call of get_changed_files
ChangedIdle ==
    /\ vcs = NoVcs
    /\ gcf = NoCall

\* no files indexed for their ids
NamesIdle ==
    /\ tree = <<>>
    /\ pinecone_index = {}

PipelineIdle ==
    /\ RunIdle
    /\ FileIdle
    /\ expected = NoLedger
    /\ invocation = NoInvocation
    /\ failed = [f \in Files |-> FALSE]

\* a fresh index and no ledger file; any contents of the indexable files
Init ==
    /\ ChunkIdle
    /\ PathIdle
    /\ ChangedIdle
    /\ NamesIdle
    /\ PipelineIdle
    /\ content \in {c \in [Files -> Contents] :
                      \A f \in Files \ Indexable : c[f] = [n |-> 1, ver |-> 1]}
    /\ ledger = NoLedger
    /\ store = {}
    /\ budget = [faults |-> MaxFaults, edits |-> MaxEdits, runs |-> MaxRuns,
                 others |-> MaxOthers]

\* the steps of one process whose runs all reach their end, and of the owner
\* of the files
NextUninterrupted ==
    \/ Edit
    \/ Launch
    \/ StartRun
    \/ EndRun
    \/ IndexFileBegin
    \/ DeleteFileVectors
    \/ ReadContent
    \/ CreateMetadata
    \/ IndexChunk
    \/ FinalFlush
    \/ Commit

\* the steps of one process
NextAlone ==
    \/ NextUninterrupted
    \/ OpenRaises
    \/ Interrupt
    \/ InterruptedSave

Next ==
    \/ NextAlone
    \/ OtherProcessCommits

Spec == Init /\ [][Next]_vars

\* no second process
SpecAlone == Init /\ [][NextAlone]_vars

\* one process, no traceback and no interrupt
SpecUninterrupted == Init /\ [][NextUninterrupted]_vars

NextLoadFails ==
    \/ NextAlone
    \/ LoadFails

\* one process; reading the ledger file may fail
SpecLoadFails == Init /\ [][NextLoadFails]_vars

\* the same, with one file large enough for full batches
InitBig ==
    /\ ChunkIdle
    /\ PathIdle
    /\ ChangedIdle
    /\ NamesIdle
    /\ PipelineIdle
    /\ content = [f \in Files |->
                    IF f = "f1" THEN [n |-> BigChunks, ver |-> 1]
                    ELSE [n |-> 1, ver |-> 1]]
    /\ ledger = NoLedger
    /\ store = {}
    /\ budget = [faults |-> BigFaults, edits |-> BigEdits, runs |-> BigRuns,
                 others |-> BigOthers]

SpecBig == InitBig /\ [][Next]_vars

ChunkInit ==
    /\ IsInputText(text)
    /\ chunk_size \in 1..MaxChunkSize
    /\ overlap \in 0..MaxOverlap
    /\ start = 0
    /\ chunks = <<>>
    /\ ranges = <<>>
    /\ cpc = "call"
    /\ previous = <<>>
    /\ PathIdle
    /\ ChangedIdle
    /\ NamesIdle
    /\ PipelineIdle
    /\ content = [f \in Files |-> [n |-> 1, ver |-> 1]]
    /\ ledger = NoLedger
    /\ store = {}
    /\ budget = [faults |-> 0, edits |-> 0, runs |-> 0, others |-> 0]

ChunkNext == ChunkCall \/ ChunkLoop

SpecChunk == ChunkInit /\ [][ChunkNext]_vars

ChunkTwiceNext == ChunkCall \/ ChunkLoop \/ ChunkAgain

\* chunk_text evaluated twice on the same arguments
SpecChunkTwice == ChunkInit /\ [][ChunkTwiceNext]_vars

CursorNext == ChunkCall \/ CursorStep

\* the interpreter keeps executing the loop as long as it can
SpecCursor == ChunkInit /\ [][CursorNext]_vars /\ WF_vars(CursorNext)

----------------------------------------------------------------------------
(* Properties *)

\* the calls of the current execution of index_file, by kind
CallsOf(op) == {j \in DOMAIN calls : calls[j].op = op}

\* C1: in a non-forced execution of update_memory.index_file for a file that
\* passes the filter and could be hashed, the file is skipped exactly when the ledger holds an
\* entry for it that equals its current hash; a skipped execution has made no
\* delete, embedding or upsert call, has left the ledger and the store as they
\* were and has returned True
C1_SkipIffUnchanged ==
    [][ (/\ mode = "default" /\ pc = "idle" /\ todo # <<>> /\ Head(todo) \in Indexable
         /\ visited' = Append(visited, Head(todo)))
        => LET f == Head(todo)
           IN  /\ (outcome' = "skipped")
                    <=> (ledger[f] # NoHash /\ ledger[f] = get_file_hash(f))
               /\ outcome' # "skipped" => pc' = "delete"
               /\ outcome' = "skipped"
                    => /\ calls' = <<>>
                       /\ ledger' = ledger
                       /\ store' = store
                       /\ ret' = TRUE
                       /\ pc' = "idle" ]_vars

\* a non-forced execution has skipped a file whose entry equals its hash
C1_Witness ==
    /\ mode = "default"
    /\ outcome = "skipped"
    /\ ledger[file_path] = get_file_hash(file_path)

\* C2: the ledger entry of the file being indexed changes only in the step
\* that ends an execution in which every chunk was embedded and every upsert
\* call succeeded; an execution with a failed embedding or upsert leaves it
\* as it was
C2_LedgerOnlyOnSuccess ==
    [][ (pc # "idle" /\ ledger'[file_path] # ledger[file_path])
        => /\ pc = "commit"
           /\ {calls[j].arg : j \in {e \in CallsOf("embed") : calls[e].ok}} = 1..nchunks
           /\ \A j \in DOMAIN calls : calls[j].ok \/ calls[j].op = "delete" ]_vars

\* an execution has failed and the file still has the entry of an earlier
\* version
C2_Witness ==
    /\ outcome = "failed"
    /\ mode \in UpdateModes
    /\ ledger[file_path] # NoHash
    /\ ledger[file_path] # current_hash

\* the records of the store under the id prefix of the file being indexed
StoredChunks ==
    {r.id[3] : r \in {x \in store : /\ x.id[1] = metadata.file_type
                                    /\ x.id[2] = metadata.file_name}}

\* C3: after a pass of update_memory.index_file that re-indexed a file
\* successfully, the ids in the store under the file's id prefix are exactly
\* chunk-1 .. chunk-N, N the number of chunks of the pass
C3_ExactIdsAfterReindex ==
    (mode \in UpdateModes /\ outcome = "committed") => StoredChunks = 1..nchunks

\* C4: in an execution of update_memory.index_file that is not skipped the
\* delete call is the first call, made before any embedding or upsert call,
\* and no other delete call follows
C4_DeleteFirst ==
    mode \in UpdateModes
    => /\ \A j \in DOMAIN calls : (calls[j].op = "delete") <=> (j = 1)
       /\ (pc \in {"read", "meta", "chunk", "flush", "commit"}
             \/ outcome \in {"empty", "committed", "failed"})
          => calls # <<>>

\* an execution has deleted, embedded and upserted
C4_Witness ==
    /\ mode \in UpdateModes
    /\ CallsOf("upsert") # {}
    /\ CallsOf("embed") # {}
    /\ calls[1].op = "delete"

\* C5: a file whose last pass failed (an embedding or an upsert failed) and
\* that was not edited since is not skipped by a non-forced execution
C5_FailedFileNotSkipped ==
    ~(mode = "default" /\ outcome = "skipped" /\ failed[file_path])

\* the embedding calls of the current execution, in order
EmbedCalls == SelectSeq(calls, LAMBDA c : c.op = "embed")

\* C6: in both scripts a chunk whose embedding failed is in no upsert batch
\* and not in the pending buffer, the embedding provider is called once for
\* every chunk 1..N in order whatever failed before, and an execution with a
\* failed embedding returns False
C6_EmbeddingFailureIsolated ==
    /\ \A j \in CallsOf("embed") :
          ~calls[j].ok
          => /\ \A u \in CallsOf("upsert") :
                   \A x \in DOMAIN calls[u].arg : calls[u].arg[x] # calls[j].arg
             /\ \A x \in DOMAIN vectors_to_upsert :
                   vectors_to_upsert[x].id[3] # calls[j].arg
    /\ \A j \in DOMAIN EmbedCalls : EmbedCalls[j].arg = j
    /\ outcome \in {"committed", "failed"}
       => /\ Len(EmbedCalls) = nchunks
          /\ (\E j \in CallsOf("embed") : ~calls[j].ok)
             => (ret = FALSE /\ outcome = "failed")

\* direct_update_pinecone.index_file has ended after the embedding of a chunk
\* that is not the last one failed
C6_Witness ==
    /\ mode = "direct"
    /\ outcome = "failed"
    /\ \E j \in CallsOf("embed") : ~calls[j].ok /\ calls[j].arg < nchunks
    /\ CallsOf("upsert") # {}

\* C7: in a run every candidate is passed to index_file whatever the earlier
\* ones returned: between two executions the files visited and the files left
\* make up the candidates and every visited file is counted once, and the run
\* ends only when all candidates were visited
C7_RunVisitsAll ==
    [][ /\ (mode' # "idle" /\ pc' = "idle")
           => /\ visited' \o todo' = candidates'
              /\ success_count' + failure_count' = Len(visited')
        /\ (mode # "idle" /\ mode' = "idle" /\ outcome' # "killed")
           => /\ visited = candidates
              /\ success_count + failure_count = Len(candidates) ]_vars

\* C8: no upsert call carries more than 100 records and the pending buffer
\* never holds more than 100
C8_BatchAtMost100 ==
    /\ Len(vectors_to_upsert) <= 100
    /\ \A u \in CallsOf("upsert") : Len(calls[u].arg) <= 100

\* C9: for a text of at most 4 * chunk_size characters chunk_text returns the
\* one chunk that is the text itself, untrimmed
C9_ShortTextUnchanged ==
    (cpc = "done" /\ Len(text) <= 4 * chunk_size) => chunks = <<text>>

\* a text of exactly 4 * chunk_size characters that starts with a blank was
\* returned
C9_Witness ==
    /\ cpc = "done"
    /\ Len(text) = 4 * chunk_size
    /\ text[1] = " "
    /\ chunks = <<text>>

\* C10: the ranges the chunks are cut from cover the text: the first starts
\* at 0, each starts at or before the end of the one before, and when
\* chunk_text returns the last one ends at len(text), so that every position
\* of the text lies in one of them
C10_RangesCover ==
    /\ ranges # <<>> => ranges[1][1] = 0
    /\ \A j \in 2..Len(ranges) : ranges[j][1] <= ranges[j - 1][2]
    /\ cpc = "done"
       => /\ ranges # <<>>
          /\ ranges[Len(ranges)][2] = Len(text)
          /\ \A p \in 0..(Len(text) - 1) :
                \E j \in DOMAIN ranges : ranges[j][1] <= p /\ p < ranges[j][2]

\* a text was cut into three chunks, one of them after a hard cut with overlap
C10_Witness ==
    /\ cpc = "done"
    /\ Len(ranges) >= 3
    /\ \E j \in 2..Len(ranges) : ranges[j][1] < ranges[j - 1][2]

\* C11: chunk_text terminates on every text for every chunk_size >= 1 and
\* every overlap >= 0: every call eventually returns
C11_Terminates == <>(cpc = "done")

\* C12: chunk_text is deterministic: a second evaluation with the same text,
\* chunk_size and overlap returns the same sequence of chunks as the first,
\* whatever the first evaluation left behind
C12_Deterministic ==
    (cpc = "done" /\ previous # <<>>) => chunks = previous[1]

\* a second evaluation has returned, with several chunks
C12_Witness ==
    /\ cpc = "done"
    /\ previous # <<>>
    /\ Len(chunks) >= 3
    /\ chunks = previous[1]

\* C13: for a file that passes the filter the file type delete_file_vectors
\* derives equals the one create_metadata derives, so that the id prefix of
\* the delete call of a pass is the id prefix of the records the pass upserts
C13_DeletePrefixIsUpsertPrefix ==
    (mode \in UpdateModes /\ metadata # NoMetadata)
    => /\ calls[1].op = "delete"
       /\ calls[1].arg = <<metadata.file_type, metadata.file_name>>

\* the elements of a sequence
Elems(q) == {q[j] : j \in DOMAIN q}

\* C14: in a changed-only run that is alone and not interrupted every execution of index_file is for a file of
\* the candidate list and re-indexes it whatever its ledger entry (it goes on
\* to the delete and is never skipped), a pass that succeeds leaves the ledger
\* entry of its file at the hash it computed, and only the file being indexed,
\* a candidate, has calls made or its ledger entry changed
C14_ChangedOnlyFrame ==
    [][ (mode = "changed" /\ outcome' # "killed")
        => /\ (todo # <<>> /\ visited' = Append(visited, Head(todo)))
              => /\ file_path' \in Elems(candidates)
                 /\ pc' = "delete"
                 /\ outcome' # "skipped"
           /\ (calls' # calls /\ calls' # <<>>)
              => /\ file_path \in Elems(candidates)
                 /\ file_path' = file_path
           /\ store' # store => file_path \in Elems(candidates)
           /\ \A f \in Files :
                 ledger'[f] # ledger[f]
                 => /\ f = file_path
                    /\ f \in Elems(candidates)
                    /\ ledger'[f] = current_hash
           /\ (pc = "commit" /\ success)
              => /\ outcome' = "committed"
                 /\ ledger'[file_path] = current_hash ]_vars

\* a changed-only run over one file has committed it while the other indexed
\* file keeps its entry
C14_Witness ==
    /\ mode = "changed"
    /\ candidates = <<"f1">>
    /\ outcome = "committed"
    /\ ledger["f1"] = current_hash
    /\ ledger["f2"] # NoHash
    /\ calls # <<>>

\* C15: after a pass that ended committed every record the pass upserted
\* carries as file_hash the hash the pass wrote to the ledger, also when the
\* file was modified by another process during the pass
C15_RecordHashIsLedgerHash ==
    (mode \in UpdateModes /\ outcome = "committed")
    => \A r \in store :
          (/\ r.id[1] = metadata.file_type
           /\ r.id[2] = metadata.file_name
           /\ r.id[3] \in 1..nchunks)
          => r.file_hash = ledger[file_path]

\* the upsert call k of the current execution carries every record of call j
Resends(k, j) ==
    /\ k > j
    /\ calls[k].op = "upsert"
    /\ Elems(calls[j].arg) \subseteq Elems(calls[k].arg)

\* C16: when an execution of index_file returns, every upsert call that
\* failed was followed by another attempt for its batch, and if such an
\* attempt succeeded and no embedding failed, the file is committed and its
\* ledger entry is the hash of the pass
C16_FailedUpsertRetried ==
    (mode \in UpdateModes /\ outcome \in {"committed", "failed"})
    => /\ \A j \in CallsOf("upsert") :
             ~calls[j].ok => \E k \in DOMAIN calls : Resends(k, j)
       /\ (/\ \A e \in CallsOf("embed") : calls[e].ok
           /\ \A j \in CallsOf("upsert") :
                 ~calls[j].ok => \E k \in DOMAIN calls : Resends(k, j) /\ calls[k].ok)
          => (outcome = "committed" /\ ledger[file_path] = current_hash)

\* C17: after a run was interrupted, wherever, the persisted ledger is the
\* ledger the run started with plus the entry path -> hash of every file the
\* run committed before the interrupt, and nothing else
C17_InterruptKeepsLedger ==
    (mode = "idle" /\ outcome = "killed") => ledger = expected

\* C18: when an execution of index_file has committed its file while another
\* process committed another file between the load and the save of the first,
\* the persisted ledger holds both new entries
C18_NoLostLedgerUpdate ==
    (mode \in UpdateModes /\ outcome = "committed") => ledger = expected

\* C19: an execution of update_memory.index_file for a file that passes the
\* filter and whose content read_file_content returns empty has made no
\* delete, no embedding and no upsert call, has left the store and the ledger
\* entry of the file as they were and has returned to the loop over the files
C19_NoContentNoEffect ==
    [][ (mode \in UpdateModes /\ pc = "read" /\ outcome' = "empty")
        => /\ calls' = <<>>
           /\ ledger' = ledger
           /\ ledger[file_path] = file_hashes[file_path]
           /\ pc' = "idle"
           /\ mode' = mode ]_vars

\* C20: update_memory.py started without an argument runs index_directory
\* with force_update=False over the full tree in every environment; started
\* with 'changed' it runs changed-only indexing and with 'all' a forced full
\* re-index
C20_ModeSelection ==
    [][ (invocation.script = "update_memory" /\ invocation' = NoInvocation)
        => /\ invocation.arg = "none"
              => (mode' = "default" /\ ~force_update' /\ Elems(candidates') = Files)
           /\ invocation.arg = "changed"
              => (mode' = "changed" /\ Elems(candidates') \subseteq Indexable)
           /\ invocation.arg = "all"
              => (mode' = "all" /\ force_update' /\ Elems(candidates') = Files) ]_vars

----------------------------------------------------------------------------
(* chunk_text: the choice of the breakpoint *)

\* the positions p of the window [end - 4*overlap, end + 4*overlap) around the
\* candidate end, cut to the text, at which sub lies wholly inside the window
WindowHits(sub, end) ==
    {p \in 0..(Len(text) - Len(sub)) :
        /\ end - CharOverlap <= p
        /\ p + Len(sub) <= end + CharOverlap
        /\ SubSeq(text, p + 1, p + Len(sub)) = sub}

\* the breakpoint the priority order selects for the candidate end
PriorityCut(end) ==
    IF WindowHits(<<"\n", "\n">>, end) # {} THEN Min(WindowHits(<<"\n", "\n">>, end))
    ELSE IF WindowHits(<<".", " ">>, end) # {} THEN Min(WindowHits(<<".", " ">>, end)) + 1
    ELSE IF WindowHits(<<"\n">>, end) # {} THEN Min(WindowHits(<<"\n">>, end))
    ELSE end

\* an iteration of the loop that cut a chunk and goes on
CutStep == cpc = "loop" /\ cpc' = "loop" /\ Len(ranges') = Len(ranges) + 1

\* C21: every chunk the loop cuts before the last one ends at the breakpoint
\* of strict priority over the window around the candidate end: the earliest
\* paragraph break of the window if it has one, else the end of its earliest
\* sentence break, else its earliest line break, else the candidate end
C21_BreakPriority ==
    [][ CutStep
        => ranges'[Len(ranges')] = <<start, PriorityCut(start + CharSize)>> ]_vars

\* update_memory.py:117-131: one of the three searches of the iteration that
\* starts at the cursor s finds a break
BreakFound(s) ==
    LET end == s + CharSize
    IN  \/ Find(text, <<"\n", "\n">>, end - CharOverlap, end + CharOverlap) # -1
        \/ Find(text, <<".", " ">>, end - CharOverlap, end + CharOverlap) # -1
        \/ Find(text, <<"\n">>, end - CharOverlap, end + CharOverlap) # -1

\* the last k characters of s, the first k characters of s
Suffix(s, k) == SubSeq(s, Len(s) - k + 1, Len(s))
Prefix(s, k) == SubSeq(s, 1, k)

\* C22 as stated: each chunk after the first starts where the one before
\* ended or 4 * overlap characters before, and in the second case the last
\* 4 * overlap characters of the chunk before are the first of the chunk
\* (checked where overlap < chunk_size, the arguments on which the loop ends)
C22_OverlapIsShared ==
    overlap < chunk_size
    => \A j \in 2..Len(chunks) :
          /\ ranges[j][1] \in {ranges[j - 1][2], ranges[j - 1][2] - CharOverlap}
          /\ ranges[j][1] < ranges[j - 1][2]
             => /\ Len(chunks[j - 1]) >= CharOverlap
                /\ Len(chunks[j]) >= CharOverlap
                /\ Suffix(chunks[j - 1], CharOverlap) = Prefix(chunks[j], CharOverlap)

\* C22 (amended): after an iteration that cut at a paragraph, sentence or
\* line break the cursor of the next chunk is that breakpoint, and after a
\* hard cut it is the cut minus 4 * overlap; every chunk after the first is
\* cut from a range that starts at one of these two offsets
C22_NextStart ==
    [][ /\ CutStep
           => LET cut == ranges'[Len(ranges')][2]
              IN  /\ BreakFound(start) => start' = cut
                  /\ ~BreakFound(start) => (cut = start + CharSize /\ start' = cut - CharOverlap)
        /\ Len(ranges') = Len(ranges) + 1
           => ranges'[Len(ranges')][1] = start ]_vars

\* after a hard cut whose chunk lost a trailing blank the call returned: the
\* second chunk starts 4 * overlap characters before the cut
C22_Witness ==
    /\ cpc = "done"
    /\ Len(ranges) = 2
    /\ overlap >= 1
    /\ overlap < chunk_size
    /\ ranges[2][1] = ranges[1][2] - CharOverlap
    /\ Len(chunks[1]) < ranges[1][2] - ranges[1][1]

\* C23: a chunk that ends at a paragraph, sentence or line break ends no
\* farther than half of 4 * overlap characters from the candidate end, the
\* search window having the width 4 * overlap and the candidate end as centre
\* (checked where overlap < chunk_size, the arguments on which the loop ends)
C23_WindowWidth ==
    [][ (CutStep /\ BreakFound(start) /\ overlap < chunk_size)
        => LET end == start + CharSize
               cut == ranges'[Len(ranges')][2]
           IN  /\ 2 * (cut - end) <= CharOverlap
               /\ 2 * (end - cut) <= CharOverlap ]_vars

----------------------------------------------------------------------------
(* The functions of a path *)

\* directories below the root
MaxDepth == 2

\* the keywords of create_metadata in the order it tests them, and the file
\* types they give
Keywords ==
    <<<<"c", "o", "m", "p", "o", "n", "e", "n", "t", "s">>,
      <<"h", "o", "o", "k", "s">>,
      <<"c", "o", "n", "t", "e", "x", "t">>,
      <<"u", "t", "i", "l", "s">>,
      <<"s", "e", "r", "v", "i", "c", "e", "s">>,
      <<"t", "y", "p", "e", "s">>>>
KeywordTypes == <<"component", "hook", "context", "utility", "service", "type_definition">>

\* names of directories: the keywords, a name without keyword, an ignored one
DirNames ==
    {Keywords[k] : k \in DOMAIN Keywords}
    \cup {<<"l", "i", "b">>, <<"n", "o", "d", "e", "_", "m", "o", "d", "u", "l", "e", "s">>}

\* names of files without the extension
Stems == {<<"a">>, <<"t", "y", "p", "e", "s">>}

\* the extensions indexed, one that is not, and none
Extensions == EXTENSIONS_TO_INDEX \cup {<<".", "p", "n", "g">>, <<>>}

\* the configured root, and a directory outside it whose name holds no keyword
Roots == {DIRECTORY_TO_INDEX, <<"/", "s", "r", "v", "/", "a", "p", "p">>}

\* os.path.join(root, file) for the directories os.walk descends (438-442)
RECURSIVE JoinPath(_, _)
JoinPath(root, names) ==
    IF names = <<>> THEN root
    ELSE JoinPath(root \o <<"/">> \o Head(names), Tail(names))

\* the paths of files at most MaxDepth directories below a root
Paths ==
    {JoinPath(root, Append(ds, stem \o ext)) :
        root \in Roots,
        ds \in UNION {[1..n -> DirNames] : n \in 0..MaxDepth},
        stem \in Stems,
        ext \in Extensions}

\* update_memory.py:81-94, 158-180, 213-230: the three functions applied to
\* the same path
Classify ==
    /\ abs_path # <<>>
    /\ classified = NotClassified
    /\ classified' = [file_type |-> MetadataFileType(abs_path),
                      delete_type |-> DeleteFileType(abs_path),
                      indexed |-> should_index_file(abs_path)]
    /\ UNCHANGED <<text, chunk_size, overlap, start, chunks, ranges, cpc, previous,
                   abs_path, vcs, gcf, tree, pinecone_index, wvars, rvars, fvars>>

ClassifyInit ==
    /\ ChunkIdle
    /\ abs_path \in Paths
    /\ classified = NotClassified
    /\ ChangedIdle
    /\ NamesIdle
    /\ PipelineIdle
    /\ content = [f \in Files |-> [n |-> 1, ver |-> 1]]
    /\ ledger = NoLedger
    /\ store = {}
    /\ budget = [faults |-> 0, edits |-> 0, runs |-> 0, others |-> 0]

SpecClassify == ClassifyInit /\ [][Classify]_vars

\* the keywords a path contains, by their place in the order of the tests
KeywordsIn(p) == {k \in DOMAIN Keywords : Contains(p, Keywords[k])}

\* the file type the decision table gives a path
TableType(p) ==
    IF \E ext \in CodeExtensions : EndsWith(p, ext)
    THEN IF KeywordsIn(p) = {} THEN "code" ELSE KeywordTypes[Min(KeywordsIn(p))]
    ELSE IF EndsWith(p, <<".", "m", "d">>) THEN "documentation"
    ELSE IF EndsWith(p, <<".", "c", "s", "s">>) THEN "style"
    ELSE IF EndsWith(p, <<".", "t", "x", "t">>) THEN "text"
    ELSE "unknown"

\* C24: the file type create_metadata gives a path is the one of the decision
\* table: for .ts, .tsx, .js and .jsx the type of the first keyword, in the
\* order components, hooks, context, utils, services, types, that the path
\* contains, and code when it contains none; documentation for .md, style for
\* .css, text for .txt; unknown for any other extension
C24_DecisionTable ==
    classified # NotClassified => classified.file_type = TableType(abs_path)

\* a path that contains utils and types, and no keyword tested before utils,
\* was classified utility
C24_Witness ==
    /\ classified.file_type = "utility"
    /\ KeywordsIn(abs_path) = {4, 6}

\* s.startswith(pre)
StartsWith(s, pre) == Len(pre) <= Len(s) /\ SubSeq(s, 1, Len(pre)) = pre

RECURSIVE LStripSlash(_)
LStripSlash(s) ==
    IF s # <<>> /\ Head(s) = "/" THEN LStripSlash(Tail(s)) ELSE s

\* update_memory.py:143-145: file_path.replace(DIRECTORY_TO_INDEX, '')
\* .lstrip('/'), for a path in which the root occurs at most at the start
get_relative_path(p) ==
    IF StartsWith(p, DIRECTORY_TO_INDEX)
    THEN LStripSlash(SubSeq(p, Len(DIRECTORY_TO_INDEX) + 1, Len(p)))
    ELSE LStripSlash(p)

\* C25: a .ts, .tsx, .js or .jsx file under the configured root is classified
\* by its place in the tree: code if its path relative to the root contains no
\* keyword, and utility, service or type_definition if the relative path
\* contains utils, services or types and none of components, hooks, context
C25_ClassifiedByLocation ==
    ( /\ classified # NotClassified
      /\ StartsWith(abs_path, DIRECTORY_TO_INDEX)
      /\ SplitExt(abs_path) \in CodeExtensions )
    => LET here == KeywordsIn(get_relative_path(abs_path))
       IN  /\ here = {} => classified.file_type = "code"
           /\ (here # {} /\ here \cap {1, 2, 3} = {})
              => classified.file_type = KeywordTypes[Min(here)]

----------------------------------------------------------------------------
(* The delete step *)

\* C26 as stated: an execution of update_memory.index_file has made a delete
\* call only if force_update is set or the ledger it loaded has an entry for
\* the file that differs from the current hash
C26_DeleteOnlyReindexed ==
    ( /\ mode \in UpdateModes
      /\ pc \in {"read", "meta", "chunk", "flush", "commit"}
      /\ \E k \in DOMAIN calls : calls[k].op = "delete" )
    => \/ force_update
       \/ file_hashes[file_path] # NoHash /\ file_hashes[file_path] # current_hash

\* C26 (amended): an execution of update_memory.index_file enters the delete
\* step exactly when the file passes the filter and is not skipped as
\* unchanged, that is when force_update is set, or the file has no ledger
\* entry, or its entry differs from the current hash; and a delete call is
\* made from the delete step only
C26_DeleteUnlessSkipped ==
    [][ /\ (mode \in UpdateModes /\ todo # <<>> /\ visited' = Append(visited, Head(todo)))
           => LET f == Head(todo)
              IN  (pc' = "delete")
                  <=> /\ f \in Indexable
                      /\ \/ force_update
                         \/ ledger[f] = NoHash
                         \/ ledger[f] # get_file_hash(f)
        /\ (Len(calls') > Len(calls) /\ calls'[Len(calls')].op = "delete")
           => pc = "delete" ]_vars

\* a non-forced execution for a file without ledger entry has made its delete
\* call
C26_Witness ==
    /\ mode = "default"
    /\ pc = "read"
    /\ file_hashes[file_path] = NoHash
    /\ Len(calls) = 1
    /\ calls[1].op = "delete"

\* C27: whatever the delete call does (it succeeds, fails with 'not found',
\* fails otherwise) the execution goes on to read the file with success
\* still true, and an execution that reaches its end commits the file exactly
\* when all its embedding and upsert calls succeeded, the result of the
\* delete call playing no part
C27_DeleteErrorNotFatal ==
    [][ /\ (pc = "delete" /\ calls' # calls)
           => /\ pc' = "read"
              /\ success'
              /\ outcome' = "running"
        /\ (mode \in UpdateModes /\ pc = "commit" /\ outcome' \in {"committed", "failed"})
           => /\ (outcome' = "committed")
                 <=> \A k \in DOMAIN calls :
                        calls[k].op \in {"embed", "upsert"} => calls[k].ok
              /\ outcome' = "committed" => ledger'[file_path] = current_hash ]_vars

\* a file was committed after its delete call had failed
C27_Witness ==
    /\ outcome = "committed"
    /\ calls # <<>>
    /\ calls[1].op = "delete"
    /\ ~calls[1].ok
    /\ ledger[file_path] = current_hash

\* update_memory.py:243: "Assuming no file has more than 50 chunks"
ChunkCeiling == 50

\* budget of the scenario of a file at the ceiling
FiftyFaults == 1
FiftyEdits == 1
FiftyRuns == 2

\* a fresh index and no ledger; one file has as many chunks as the ceiling
\* allows
InitFifty ==
    /\ ChunkIdle
    /\ PathIdle
    /\ ChangedIdle
    /\ NamesIdle
    /\ PipelineIdle
    /\ content = [f \in Files |->
                    IF f = "f1" THEN [n |-> ChunkCeiling, ver |-> 1]
                    ELSE [n |-> 1, ver |-> 1]]
    /\ ledger = NoLedger
    /\ store = {}
    /\ budget = [faults |-> FiftyFaults, edits |-> FiftyEdits, runs |-> FiftyRuns,
                 others |-> 0]

SpecFifty == InitFifty /\ [][NextAlone]_vars

\* C28: once the delete call of an execution has succeeded the store holds no
\* record of the file with a sequence number from 1 to 50: the delete request
\* names the ids of the file for every number up to the ceiling of 50
C28_DeleteUpToCeiling ==
    ( /\ mode \in UpdateModes
      /\ pc = "read"
      /\ calls # <<>>
      /\ calls[1].op = "delete"
      /\ calls[1].ok )
    => \A k \in 1..ChunkCeiling :
          \A r \in store : r.id # <<DeleteType[file_path], FileName[file_path], k>>

----------------------------------------------------------------------------
(* The filter and the counts *)

\* the path ends with an extension of the allow-list and lies under no
\* ignored directory
PassesFilter(p) ==
    /\ \E ext \in EXTENSIONS_TO_INDEX : EndsWith(p, ext)
    /\ \A d \in IGNORE_DIRS : ~Contains(p, <<"/">> \o d \o <<"/">>)

\* per file, whether its path does
Passes == [f \in Files |-> PassesFilter(PathOf(f))]

\* C29: an execution of index_file for a file that fails the filter returns
\* at once, in every mode: it does not load the ledger, makes no call and
\* leaves the ledger and the store as they were; every file an execution goes
\* on to index passes the filter, and so does every candidate of a
\* changed-only run
C29_FilteredNoEffect ==
    [][ /\ (todo # <<>> /\ visited' = Append(visited, Head(todo))
             /\ ~Passes[Head(todo)])
           => /\ pc' = "idle"
              /\ outcome' = "filtered"
              /\ calls' = <<>>
              /\ file_hashes' = NoLedger
              /\ ledger' = ledger
              /\ store' = store
        /\ pc' # "idle" => Passes[file_path']
        /\ mode' = "changed"
           => \A j \in DOMAIN candidates' : Passes[candidates'[j]] ]_vars

\* a forced full run has indexed a file and then returned at once for a file
\* that fails the filter
C29_Witness ==
    /\ mode = "all"
    /\ outcome = "filtered"
    /\ ~Passes[file_path]
    /\ store # {}
    /\ calls = <<>>

\* an execution of index_file returns to the loop over the files
Returns == mode # "idle" /\ mode' = mode /\ pc' = "idle" /\ (pc # "idle" \/ visited' # visited)

\* C30: in a run of index_directory the counts of the summary go up with the
\* states the files end in: an execution that ends Failed adds one to the
\* failure count, one that ends Committed or skipped as unchanged adds one to
\* the success count, and one that is skipped by the filter adds nothing to
\* the failure count
C30_CountsMatchStates ==
    [][ (mode \in {"default", "all"} /\ Returns)
        => /\ outcome' = "failed"
              => (failure_count' = failure_count + 1 /\ success_count' = success_count)
           /\ outcome' \in {"committed", "skipped"}
              => (success_count' = success_count + 1 /\ failure_count' = failure_count)
           /\ outcome' = "filtered"
              => failure_count' = failure_count ]_vars

----------------------------------------------------------------------------
(* The upsert calls of an execution *)

\* the upsert calls of the current execution, in order
UpsertCalls == SelectSeq(calls, LAMBDA c : c.op = "upsert")

\* the chunk numbers of a call are in increasing order
Increasing(q) == \A x, y \in DOMAIN q : x < y => q[x] < q[y]

\* C31: when an execution of index_file has returned after its loop, every
\* chunk whose embedding succeeded is in at least one upsert call, every
\* upsert call carries its chunks in increasing order, and if no upsert call
\* failed every such chunk is in exactly one call and the calls follow the
\* chunk order
C31_EveryEmbeddedChunkUpserted ==
    outcome \in {"committed", "failed"}
    => /\ \A e \in CallsOf("embed") :
             calls[e].ok
             => \E u \in CallsOf("upsert") : calls[e].arg \in Elems(calls[u].arg)
       /\ \A u \in CallsOf("upsert") : Increasing(calls[u].arg)
       /\ (\A u \in CallsOf("upsert") : calls[u].ok)
          => /\ \A e \in CallsOf("embed") :
                   calls[e].ok
                   => Cardinality({u \in CallsOf("upsert") :
                                     calls[e].arg \in Elems(calls[u].arg)}) = 1
             /\ \A j \in 2..Len(UpsertCalls) :
                   UpsertCalls[j - 1].arg[Len(UpsertCalls[j - 1].arg)] < UpsertCalls[j].arg[1]

\* an execution ended after a full batch and a final flush of the remainder
C31_Witness ==
    /\ outcome = "committed"
    /\ Len(UpsertCalls) = 2
    /\ Len(UpsertCalls[1].arg) = UPSERT_BATCH_SIZE
    /\ Len(UpsertCalls[2].arg) >= 1

----------------------------------------------------------------------------
(* get_changed_files *)

\* what a git command does: subprocess.run raises (git is not installed, the
\* working directory does not exist), or it returns and its output lists the
\* files out (none when git exits with an error: run is called without check)
GitResults ==
    [raises : {FALSE}, out : SUBSET Files] \cup [raises : {TRUE}, out : {{}}]

\* update_memory.py:377-378, 396-397, 410-411: the files of S that pass
\* should_index_file, in the order listed
Candidates(S) == Listing(WalkOrder, S \cap Indexable)

\* update_memory.py:420-421: the handler of the try block around the three
\* sources; the function then returns the list as it is (428)
Handled == [gcf EXCEPT !.pc = "done"]

\* update_memory.py:359-380: git status --porcelain
GitStatus ==
    /\ gcf.pc = "status"
    /\ gcf' = IF vcs.status.raises THEN Handled
              ELSE [pc |-> IF Candidates(vcs.status.out) = <<>> THEN "diff" ELSE "done",
                    changed_files |-> Candidates(vcs.status.out),
                    consulted |-> Append(gcf.consulted, "status")]
    /\ UNCHANGED <<text, chunk_size, overlap, start, chunks, ranges, cpc, previous,
                   abs_path, classified, vcs, tree, pinecone_index,
                   wvars, rvars, fvars>>

\* update_memory.py:382-399: git diff --name-only HEAD~1 HEAD
GitDiff ==
    /\ gcf.pc = "diff"
    /\ gcf' = IF vcs.diff.raises THEN Handled
              ELSE [pc |-> IF Candidates(vcs.diff.out) = <<>> THEN "mtime" ELSE "done",
                    changed_files |-> Candidates(vcs.diff.out),
                    consulted |-> Append(gcf.consulted, "diff")]
    /\ UNCHANGED <<text, chunk_size, overlap, start, chunks, ranges, cpc, previous,
                   abs_path, classified, vcs, tree, pinecone_index,
                   wvars, rvars, fvars>>

\* update_memory.py:401-418: the files modified within the last hour
MTimeWindow ==
    /\ gcf.pc = "mtime"
    /\ gcf' = [pc |-> "done",
               changed_files |-> Candidates(vcs.recent),
               consulted |-> Append(gcf.consulted, "mtime")]
    /\ UNCHANGED <<text, chunk_size, overlap, start, chunks, ranges, cpc, previous,
                   abs_path, classified, vcs, tree, pinecone_index,
                   wvars, rvars, fvars>>

ChangedInit ==
    /\ ChunkIdle
    /\ PathIdle
    /\ vcs \in [status : GitResults, diff : GitResults, recent : SUBSET Files]
    /\ gcf = [pc |-> "status", changed_files |-> <<>>, consulted |-> <<>>]
    /\ NamesIdle
    /\ PipelineIdle
    /\ content = [f \in Files |-> [n |-> 1, ver |-> 1]]
    /\ ledger = NoLedger
    /\ store = {}
    /\ budget = [faults |-> 0, edits |-> 0, runs |-> 0, others |-> 0]

ChangedNext == GitStatus \/ GitDiff \/ MTimeWindow

SpecChanged == ChangedInit /\ [][ChangedNext]_vars

\* C32: when get_changed_files returns, the diff against the previous
\* revision was consulted only if the working-tree diff gave no candidate, the
\* modification-time window only if both diffs gave none, the window was
\* consulted whenever both diffs gave no candidate, a failed git command
\* included, and the candidates returned are those of the last source
\* consulted
C32_FallbackChain ==
    gcf.pc = "done"
    => LET none1 == Candidates(vcs.status.out) = <<>>
           none2 == Candidates(vcs.diff.out) = <<>>
       IN  /\ "diff" \in Elems(gcf.consulted) => none1
           /\ "mtime" \in Elems(gcf.consulted) => (none1 /\ none2)
           /\ (none1 /\ none2) => "mtime" \in Elems(gcf.consulted)
           /\ gcf.changed_files =
                 IF ~none1 THEN Candidates(vcs.status.out)
                 ELSE IF ~none2 THEN Candidates(vcs.diff.out)
                 ELSE Candidates(vcs.recent)

----------------------------------------------------------------------------
(* The ledger as a whole *)

\* C33: in a run that is not interrupted an entry of the ledger changes only
\* in the commit of the file it belongs to, to the hash of that pass: the
\* entries of all other files stay as they were and none is removed, also
\* when reading the ledger file failed at the start of the execution
C33_OtherEntriesKept ==
    [][ outcome' # "killed"
        => \A f \in Files :
              ledger'[f] # ledger[f]
              => /\ pc = "commit"
                 /\ f = file_path
                 /\ ledger'[f] = current_hash ]_vars

\* C34: when an execution of update_memory.index_file has returned, every
\* file whose ledger entry is the hash of its current content has a record in
\* the store for each of its chunk ids 1..N, N the chunk count of that content
C34_LedgerImpliesStored ==
    ( /\ mode \in UpdateModes
      /\ pc = "idle"
      /\ outcome \in {"filtered", "skipped", "empty", "committed", "failed"} )
    => \A f \in Indexable :
          ledger[f] = get_file_hash(f)
          => \A k \in 1..content[f].n :
                \E r \in store : r.id = <<MetadataType[f], FileName[f], k>>

----------------------------------------------------------------------------
(* chunk_text: progress and sizes *)

\* an iteration of the loop that appended a chunk
AppendStep == cpc = "loop" /\ Len(ranges') = Len(ranges) + 1

\* the number of characters of the range the iteration cut
CutLength == ranges'[Len(ranges')][2] - ranges'[Len(ranges')][1]

\* C35 as stated: for chunk_size > overlap >= 0, every iteration but the last
\* moves the cursor forward and cuts a range of at least
\* 4 * (chunk_size - overlap) and fewer than 4 * (chunk_size + overlap)
\* characters, and the last chunk has at most 4 * chunk_size characters
C35_SizesStrict ==
    [][ (overlap < chunk_size /\ AppendStep)
        => IF cpc' = "loop"
           THEN /\ start' > start
                /\ CutLength >= CharSize - CharOverlap
                /\ CutLength < CharSize + CharOverlap
           ELSE /\ CutLength <= CharSize
                /\ Len(chunks'[Len(chunks')]) <= CharSize ]_vars

\* C35 (amended): the same, the range of a chunk that is not the last having
\* fewer than 4 * (chunk_size + overlap) characters when overlap > 0 and
\* exactly 4 * chunk_size characters when overlap = 0
C35_Sizes ==
    [][ (overlap < chunk_size /\ AppendStep)
        => IF cpc' = "loop"
           THEN /\ start' > start
                /\ CutLength >= CharSize - CharOverlap
                /\ IF overlap = 0 THEN CutLength = CharSize
                   ELSE CutLength < CharSize + CharOverlap
           ELSE /\ CutLength <= CharSize
                /\ Len(chunks'[Len(chunks')]) <= CharSize ]_vars

\* chunk_text returned two chunks for overlap = 0, the first cut from exactly
\* 4 * chunk_size characters
C35_Witness ==
    /\ cpc = "done"
    /\ overlap = 0
    /\ Len(ranges) = 2
    /\ ranges[1] = <<0, CharSize>>
    /\ ranges[2][1] = CharSize

----------------------------------------------------------------------------
(* The ids of the records *)

\* update_memory.py:159-180: the values of file_type
FileTypes ==
    {"unknown", "component", "hook", "context", "utility", "service", "type_definition", "code", "documentation", "style", "text"}

\* their characters
TypeChars ==
    [t \in FileTypes |->
        CASE t = "unknown" -> <<"u", "n", "k", "n", "o", "w", "n">>
          [] t = "component" -> <<"c", "o", "m", "p", "o", "n", "e", "n", "t">>
          [] t = "hook" -> <<"h", "o", "o", "k">>
          [] t = "context" -> <<"c", "o", "n", "t", "e", "x", "t">>
          [] t = "utility" -> <<"u", "t", "i", "l", "i", "t", "y">>
          [] t = "service" -> <<"s", "e", "r", "v", "i", "c", "e">>
          [] t = "type_definition" -> <<"t", "y", "p", "e", "_", "d", "e", "f", "i", "n", "i", "t", "i", "o", "n">>
          [] t = "code" -> <<"c", "o", "d", "e">>
          [] t = "documentation" -> <<"d", "o", "c", "u", "m", "e", "n", "t", "a", "t", "i", "o", "n">>
          [] t = "style" -> <<"s", "t", "y", "l", "e">>
          [] t = "text" -> <<"t", "e", "x", "t">>]

DecimalDigits == <<"0", "1", "2", "3", "4", "5", "6", "7", "8", "9">>

\* str(n) of a natural number
RECURSIVE Str(_)
Str(n) ==
    IF n < 10 THEN <<DecimalDigits[n + 1]>>
    ELSE Str(n \div 10) \o <<DecimalDigits[(n % 10) + 1]>>

\* the id without the name of the file
DocId_NoName(file_type, file_name, k) ==
    <<"u", "s", "e", "r", "g", "r", "o", "u", "p", "c", "h", "a", "t", "c", "o", "n", "t", "e", "x", "t", "-">>
    \o TypeChars[file_type] \o <<"-", "c", "h", "u", "n", "k", "-">> \o Str(k)

\* update_memory.py:244, 293, 303:
\* f"usergroupchatcontext-{file_type}-{file_name}-chunk-{k}"
DocId(file_type, file_name, k) ==
    <<"u", "s", "e", "r", "g", "r", "o", "u", "p", "c", "h", "a", "t", "c", "o", "n", "t", "e", "x", "t">>
    \o TypeChars[file_type] \o <<"-">> \o file_name \o <<"-", "c", "h", "u", "n", "k", "-">> \o Str(k)

\* names of files without the extension: plain, and built from the pieces of an id
NameStems == {<<"a">>, <<"a", "-", "c", "h", "u", "n", "k", "-", "1">>, <<"c", "o", "d", "e", "-", "a">>}
NameExtensions == {<<".", "t", "s">>, <<".", "t", "s", "x">>, <<".", "m", "d">>}
NameDirs == {<<"c", "o", "m", "p", "o", "n", "e", "n", "t", "s">>, <<"l", "i", "b">>}

\* the files that can be in the tree
NamePaths ==
    {JoinPath(DIRECTORY_TO_INDEX, <<d, stem \o ext>>) :
        d \in NameDirs, stem \in NameStems, ext \in NameExtensions}

\* update_memory.py:241-244: the ids delete_file_vectors asks to delete
RequestedIds(p) ==
    {DocId(DeleteFileType(p), Basename(p), k) : k \in 1..(DELETE_RANGE_STOP - 1)}

\* update_memory.py:290-325: the records of the n chunks of the file
NamedRecords(p, n) ==
    [k \in 1..n |->
        [id |-> DocId(MetadataFileType(p), Basename(p), k),
         file_path |-> p,
         file_name |-> Basename(p),
         file_type |-> MetadataFileType(p),
         chunk_index |-> k]]

\* update_memory.py:263-352: a forced pass of index_file over one of the two
\* files where every call succeeds: the delete request, then the upserts
IndexNamed ==
    /\ tree # <<>>
    /\ \E x \in DOMAIN tree, n \in 1..MaxChunks :
          /\ should_index_file(tree[x])
          /\ abs_path' = tree[x]
          /\ pinecone_index' =
                Upsert(Delete(pinecone_index, RequestedIds(tree[x])),
                       NamedRecords(tree[x], n))
    /\ UNCHANGED <<text, chunk_size, overlap, start, chunks, ranges, cpc, previous,
                   classified, vcs, gcf, tree, wvars, rvars, fvars>>

NamesInit ==
    /\ ChunkIdle
    /\ PathIdle
    /\ ChangedIdle
    /\ tree \in NamePaths \X NamePaths
    /\ pinecone_index = {}
    /\ PipelineIdle
    /\ content = [f \in Files |-> [n |-> 1, ver |-> 1]]
    /\ ledger = NoLedger
    /\ store = {}
    /\ budget = [faults |-> 0, edits |-> 0, runs |-> 0, others |-> 0]

SpecNames == NamesInit /\ [][IndexNamed]_vars

\* the id is injective on the types, the names of the two files and the
\* indices of the delete request
IdInjective ==
    LET triples == FileTypes \X {Basename(tree[x]) : x \in DOMAIN tree}
                             \X (1..(DELETE_RANGE_STOP - 1))
    IN  Cardinality({DocId(t[1], t[2], t[3]) : t \in triples}) = Cardinality(triples)

\* C36: the id is injective in (file_type, file_name, i), and a pass of
\* index_file over one file leaves in the index, unchanged, every record of a
\* file with a different basename
C36_OtherNamesUntouched ==
    /\ []IdInjective
    /\ [][ \A r \in pinecone_index :
              r.file_name # Basename(abs_path') => r \in pinecone_index' ]_vars

\* two files of the same type whose names differ are in the index, and the
\* one indexed last has a name built from the pieces of an id
C36_Witness ==
    \E r1, r2 \in pinecone_index :
        /\ r1.file_type = r2.file_type
        /\ r1.file_name # r2.file_name
        /\ r1.file_path = abs_path
        /\ Contains(r1.file_name, <<"-", "c", "h", "u", "n", "k", "-">>)
        /\ r2.chunk_index = MaxChunks

----------------------------------------------------------------------------
(* direct_update_pinecone.index_file as a function of the outcomes of its calls *)

\* direct_update_pinecone.py:206-241: the for loop from chunk k on, and
\* 243-252: the final batch and the return. pending holds the chunk numbers of
\* vectors_to_upsert, outs the outcomes of the embedding and upsert calls
\* still to come, log the upsert calls made
RECURSIVE direct_loop(_, _, _, _, _, _)
direct_loop(k, n, pending, ok, outs, log) ==
    IF k > n
    THEN IF pending # <<>>
         THEN [upserts |-> Append(log, [op |-> "upsert", ok |-> Head(outs), arg |-> pending]),
               ret |-> ok /\ Head(outs)]
         ELSE [upserts |-> log, ret |-> ok]
    ELSE IF ~Head(outs)
    THEN direct_loop(k + 1, n, pending, FALSE, Tail(outs), log)
    ELSE LET vs == Append(pending, k)
             rest == Tail(outs)
         IN  IF Len(vs) >= UPSERT_BATCH_SIZE
             THEN IF Head(rest)
                  THEN direct_loop(k + 1, n, <<>>, ok, Tail(rest),
                                   Append(log, [op |-> "upsert", ok |-> TRUE, arg |-> vs]))
                  ELSE direct_loop(k + 1, n, vs, FALSE, Tail(rest),
                                   Append(log, [op |-> "upsert", ok |-> FALSE, arg |-> vs]))
             ELSE direct_loop(k + 1, n, vs, ok, rest, log)

\* direct_update_pinecone.py:182-252: index_file of a file of n chunks
direct_index_file(f, n, outs) ==
    IF ~ShouldIndex[f] \/ n = 0
    THEN [upserts |-> <<>>, ret |-> FALSE]
    ELSE direct_loop(1, n, <<>>, TRUE, outs, <<>>)

\* direct_update_pinecone.py:195-216: the record of chunk k of n
direct_record(f, k, n) ==
    [id |-> <<MetadataType[f], FileName[f], k>>, total_chunks |-> n]

\* the outcomes of the embedding and upsert calls of the execution, in order
Outcomes ==
    LET q == SelectSeq(calls, LAMBDA c : c.op \in {"embed", "upsert"})
    IN  [j \in DOMAIN q |-> q[j].ok]

\* C37: when a forced execution of update_memory.index_file has returned, its
\* upsert calls (batches and outcomes) and its return value are those of
\* direct_update_pinecone.index_file for the same file and the same outcomes of
\* the embedding and upsert calls, and the records it built have the ids and
\* total_chunks direct_update_pinecone builds
C37_SameAsDirect ==
    ( /\ force_update
      /\ pc = "idle"
      /\ outcome \in {"filtered", "empty", "committed", "failed"} )
    => LET n == IF outcome \in {"committed", "failed"} THEN nchunks ELSE 0
           d == direct_index_file(file_path, n, Outcomes)
       IN  /\ UpsertCalls = d.upserts
           /\ ret = d.ret
           /\ \A k \in 1..n :
                 /\ VectorRecord(k).id = direct_record(file_path, k, n).id
                 /\ VectorRecord(k).total_chunks = direct_record(file_path, k, n).total_chunks

\* a forced execution returned after a full batch that failed and was sent
\* again with the next chunk
C37_Witness ==
    /\ force_update
    /\ pc = "idle"
    /\ outcome = "failed"
    /\ Len(UpsertCalls) = 2
    /\ ~UpsertCalls[1].ok
    /\ UpsertCalls[2].ok

====
